---- MODULE Spec2Model ----
(***************************************************************************)
(* Adaptive feature selection of the A-LOAM pipeline                       *)
(* (src/src/feature_selection.cpp): the angular neighbour table built by   *)
(* the constructor, the organised neighbour search, gradient estimation,   *)
(* percentile selection and the adaptive resolution state.                 *)
(*                                                                         *)
(* Number representation.  Lengths are integers in millimetres (the table  *)
(* construction uses tenths of a millimetre internally).  Normalised       *)
(* gradients, means, deviations and keep-percentiles are fixed-point       *)
(* numbers with GScale units per 1.0.  The IEEE value NaN that the code    *)
(* produces by 0/0 is the distinguished value NaN; every arithmetic        *)
(* operator propagates it and every comparison with it is false.           *)
(***************************************************************************)
EXTENDS Integers, Sequences, FiniteSets, TLC

\* ------------------------------------------------------------------------
\* Program constants
\* ------------------------------------------------------------------------

\* const float R = 0.6f: the radius the angular table is built for [mm]
R == 600

\* NEIGH_IDX_PREC_RANGE_RES = 0.2f: width of one range bucket [mm]
NEIGH_IDX_PREC_RANGE_RES == 200

\* mapping_resolution/{corners,surfs}/{min,max} defaults [mm]
RESOLUTION_CORNERS_MIN == 50

RESOLUTION_CORNERS_MAX == 600

RESOLUTION_SURFS_MIN == 100

RESOLUTION_SURFS_MAX == 1000

\* floor((pi/2) / VFOV_RESOLUTION) and floor((pi/2) / HFOV_RESOLUTION): the
\* value of floor(atan2(y, 0) / res) for y > 0
VFOV_QUARTER == 40

HFOV_QUARTER == 256

\* fixed-point unit of the tangent tables (1.0 == TanScale)
TanScale == 1000000

\* fixed-point unit of gradients, statistics and percentiles (1.0 == GScale)
GScale == 1000

\* a sentinel of +1 in place of -1
SENTINEL_Positive == GScale

\* the sentinel returned for mean, stddev and cutoff of an empty batch: -1.0f
SENTINEL == 0 - GScale

\* IEEE NaN
NaN == -999999

\* std::tan(float(i) * VFOV_RESOLUTION) * TanScale for i = 0..40
\* (VFOV_RESOLUTION = 0.03862995413); entry i is at position i + 1
TanV == <<
    0, 38649, 77414, 116411, 155761, 195588, 236021, 277199,
    319269, 362390, 406736, 452498, 499890, 549149, 600544, 654382,
    711013, 770845, 834352, 902091, 974724, 1053044, 1138009, 1230792,
    1332844, 1445980, 1572511, 1715416, 1878617, 2067371, 2288910, 2553448,
    2875918, 3279038, 3799164, 4498322, 5491747, 7020510, 9687824, 15548090,
    39056772 >>

\* std::tan(n * HFOV_RESOLUTION) * TanScale for n = 0..255
\* (HFOV_RESOLUTION = 0.00613592315 = 2 pi / 1024); entry n is at position n + 1
TanH == <<
    0, 6136, 12272, 18410, 24549, 30689, 36832, 42978,
    49127, 55280, 61436, 67598, 73764, 79937, 86115, 92300,
    98491, 104691, 110898, 117114, 123338, 129572, 135816, 142071,
    148336, 154613, 160901, 167202, 173516, 179844, 186185, 192541,
    198912, 205299, 211702, 218121, 224558, 231012, 237484, 243976,
    250487, 257018, 263570, 270143, 276737, 283354, 289995, 296659,
    303347, 310060, 316799, 323563, 330355, 337175, 344023, 350899,
    357806, 364743, 371710, 378710, 385743, 392808, 399908, 407043,
    414214, 421421, 428665, 435948, 443270, 450631, 458034, 465478,
    472965, 480495, 488070, 495691, 503358, 511072, 518835, 526648,
    534511, 542426, 550394, 558416, 566493, 574626, 582817, 591067,
    599377, 607748, 616182, 624680, 633243, 641873, 650571, 659339,
    668179, 677091, 686077, 695139, 704279, 713499, 722799, 732183,
    741651, 751205, 760848, 770582, 780408, 790328, 800345, 810462,
    820679, 830999, 841426, 851961, 862606, 873365, 884239, 895232,
    906347, 917586, 928952, 940449, 952079, 963846, 975753, 987803,
    1000000, 1012348, 1024850, 1037510, 1050333, 1063322, 1076481, 1089816,
    1103330, 1117028, 1130916, 1144997, 1159278, 1173763, 1188459, 1203370,
    1218504, 1233865, 1249460, 1265297, 1281382, 1297721, 1314323, 1331194,
    1348344, 1365780, 1383510, 1401544, 1419891, 1438560, 1457562, 1476907,
    1496606, 1516670, 1537110, 1557940, 1579173, 1600820, 1622897, 1645419,
    1668399, 1691855, 1715803, 1740261, 1765247, 1790780, 1816880, 1843569,
    1870868, 1898802, 1927394, 1956671, 1986659, 2017387, 2048886, 2081186,
    2114322, 2148330, 2183246, 2219110, 2255964, 2293853, 2332823, 2372926,
    2414214, 2456743, 2500574, 2545771, 2592403, 2640542, 2690266, 2741660,
    2794813, 2849820, 2906786, 2965820, 3027043, 3090584, 3156580, 3225184,
    3296558, 3370879, 3448340, 3529149, 3613536, 3701749, 3794063, 3890778,
    3992224, 4098764, 4210802, 4328783, 4453202, 4584612, 4723629, 4870946,
    5027339, 5193689, 5370990, 5560376, 5763142, 5980774, 6214988, 6467773,
    6741452, 7038750, 7362888, 7717699, 8107786, 8538718, 9017302, 9551949,
    10153170, 10834280, 11612399, 12509912, 13556669, 14793373, 16277008, 18089884,
    20355467, 23267775, 27150170, 32584705, 40735483, 54318750, 81483238, 162972606 >>

\* ------------------------------------------------------------------------
\* Bounds of the model
\* ------------------------------------------------------------------------

\* selectFeatures calls explored on one object
MaxCalls == 3

\* cap on the buckets the constructor loop may append
MaxSample == 600

VARIABLES
    pc,                          \* "ctor" | "ready" | "faulted"
    sample,                      \* constructor loop: unsigned int sample
    stop,                        \* constructor loop: bool stop
    neigh_idxs_rows_cols,        \* _neigh_idxs_rows_cols: the angular table
    features_selection_enabled,  \* _features_selection_enabled
    corners_keep_percentile,     \* _corners_keep_percentile
    surfs_keep_percentile,       \* _surfs_keep_percentile
    resolution_corners,          \* _resolution_corners
    resolution_surfs,            \* _resolution_surfs
    calls,                       \* selectFeatures calls made so far
    last,                        \* what the last selectFeatures call did
    invocations                  \* selectFeatures calls in flight on other threads

vars == << pc, sample, stop, neigh_idxs_rows_cols, features_selection_enabled,
           corners_keep_percentile, surfs_keep_percentile,
           resolution_corners, resolution_surfs, calls, last, invocations >>

\* ------------------------------------------------------------------------
\* Arithmetic helpers
\* ------------------------------------------------------------------------

Abs(x) == IF x < 0 THEN 0 - x ELSE x

Max(a, b) == IF a >= b THEN a ELSE b

Min(a, b) == IF a <= b THEN a ELSE b

SetMax(S) == CHOOSE x \in S : \A y \in S : y <= x

RECURSIVE SqrtSearch(_, _, _)
SqrtSearch(n, lo, hi) ==
    IF lo >= hi THEN lo
    ELSE LET mid == (lo + hi + 1) \div 2
         IN  IF mid * mid <= n THEN SqrtSearch(n, mid, hi)
             ELSE SqrtSearch(n, lo, mid - 1)

\* std::sqrt on a non-negative fixed-point number, rounded down
ISqrt(n) == SqrtSearch(n, 0, 46340)

\* std::floor(std::atan2(y, x) / res) for y >= 0, x >= 0, where tanTable
\* holds tan(n * res) and quarter = floor((pi/2) / res): the largest n with
\* tan(n * res) <= y / x
FloorAtan2(tanTable, quarter, y, x, yScale) ==
    IF x = 0 THEN (IF y > 0 THEN quarter ELSE 0)
    ELSE LET ratio == (y * yScale) \div x
         IN  SetMax({n \in 0..(Len(tanTable) - 1) : tanTable[n + 1] <= ratio})

\* ------------------------------------------------------------------------
\* FeatureSelection::FeatureSelection: the angular table
\* ------------------------------------------------------------------------

\* max_v_idx = floor(atan2(R, range) / VFOV_RESOLUTION), range in mm
MaxVIdx(range) == FloorAtan2(TanV, VFOV_QUARTER, R, range, TanScale)

\* k = range * tan(i * VFOV_RESOLUTION), in tenths of a millimetre
KOffset(range, i) == (range * TanV[i + 1]) \div (TanScale \div 10)

\* max_h_idx with the arguments of atan2 exchanged
MaxHIdx_SwappedArgs(range, i) ==
    LET k == KOffset(range, i)
        q == ISqrt((10 * R) * (10 * R) - k * k)
    IN  FloorAtan2(TanH, HFOV_QUARTER, 10 * range, q, TanScale)

\* max_h_idx = floor(atan2(sqrt(R*R - k*k), range) / HFOV_RESOLUTION)
MaxHIdx(range, i) ==
    LET k == KOffset(range, i)
        q == ISqrt((10 * R) * (10 * R) - k * k)
    IN  FloorAtan2(TanH, HFOV_QUARTER, q, range, TanScale \div 10)

\* the vector idxs of one loop iteration: one pair (max_v_idx, max_h_idx)
\* per row offset i = 0..max_v_idx
BucketIdxs(range) ==
    LET max_v_idx == MaxVIdx(range)
    IN  [k \in 1..(max_v_idx + 1) |-> << max_v_idx, MaxHIdx(range, k - 1) >>]

\* a loop whose stop flag is never set
BucketStops_Never(idxs) == FALSE

\* stop = true once some pair of the bucket is (0, 0)
BucketStops(idxs) == \E k \in 1..Len(idxs) : idxs[k][1] = 0 /\ idxs[k][2] = 0

\* ------------------------------------------------------------------------
\* IEEE float operations on fixed-point values
\* ------------------------------------------------------------------------

IsNaN(a) == a = NaN

FAdd(a, b) == IF IsNaN(a) \/ IsNaN(b) THEN NaN ELSE a + b

FSub(a, b) == IF IsNaN(a) \/ IsNaN(b) THEN NaN ELSE a - b

\* product of a fixed-point factor (GScale units) and a number
FMul(a, b) == IF IsNaN(a) \/ IsNaN(b) THEN NaN ELSE (a * b) \div GScale

\* quotient of two non-negative numbers as a fixed-point number; 0/0 is NaN
FDiv(a, b) ==
    IF IsNaN(a) \/ IsNaN(b) THEN NaN
    ELSE IF b = 0 THEN NaN
    ELSE (a * GScale) \div b

FGe(a, b) == ~IsNaN(a) /\ ~IsNaN(b) /\ a >= b

FGt(a, b) == ~IsNaN(a) /\ ~IsNaN(b) /\ a > b

FLt(a, b) == ~IsNaN(a) /\ ~IsNaN(b) /\ a < b

\* ------------------------------------------------------------------------
\* The scans handed to selectFeatures (ExtractedFeatures)
\*
\* A 16-ring sensor with 1024 columns per ring.  Row r has elevation
\* (r - 8) * VFOV_RESOLUTION, column c has azimuth (c - 512) * HFOV_RESOLUTION,
\* so columns 0 and 1023 are adjacent in azimuth.  The position of a point is
\* range * (cos e cos a, cos e sin a, sin e) rounded to the millimetre.
\* ------------------------------------------------------------------------

\* cloud_filt, with the row, column and range the extraction keeps per index
Cloud == <<
    \* 1..3: three features 123 mm and 246 mm apart at 20 m; 4: far from all
    [row |-> 8, col |-> 300, range |-> 20000, x |-> 5334, y |-> -19276, z |-> 0, intensity |-> 11],
    [row |-> 8, col |-> 301, range |-> 20000, x |-> 5452, y |-> -19242, z |-> 0, intensity |-> 12],
    [row |-> 8, col |-> 303, range |-> 20000, x |-> 5688, y |-> -19174, z |-> 0, intensity |-> 13],
    [row |-> 8, col |-> 400, range |-> 20000, x |-> 15460, y |-> -12688, z |-> 0, intensity |-> 14],
    \* 5, 6: two features 124 mm apart at 20 m
    [row |-> 8, col |-> 700, range |-> 20000, x |-> 8105, y |-> 18284, z |-> 0, intensity |-> 15],
    [row |-> 8, col |-> 701, range |-> 20000, x |-> 7992, y |-> 18334, z |-> 0, intensity |-> 16],
    \* 7: at 0.855 m; 8, 9: at 1 m, 89 columns to either side of 7 and
    \* 519 mm from it, placed symmetrically about it
    [row |-> 8, col |-> 512, range |-> 855, x |-> 855, y |-> 0, z |-> 0, intensity |-> 17],
    [row |-> 8, col |-> 601, range |-> 1000, x |-> 855, y |-> 519, z |-> 0, intensity |-> 18],
    [row |-> 8, col |-> 423, range |-> 1000, x |-> 855, y |-> -519, z |-> 0, intensity |-> 19],
    \* 10: a return at 100 m
    [row |-> 8, col |-> 800, range |-> 100000, x |-> -19509, y |-> 98079, z |-> 0, intensity |-> 20],
    \* 11..13: columns 0, 1023 and 1022 at 20 m: neighbours across the seam
    [row |-> 8, col |-> 0, range |-> 20000, x |-> -20000, y |-> 0, z |-> 0, intensity |-> 21],
    [row |-> 8, col |-> 1023, range |-> 20000, x |-> -20000, y |-> 123, z |-> 0, intensity |-> 22],
    [row |-> 8, col |-> 1022, range |-> 20000, x |-> -19998, y |-> 245, z |-> 0, intensity |-> 23],
    \* 14..16: at 10 m; 15 is one ring above 14 (386 mm), 16 one column beside it (62 mm)
    [row |-> 8, col |-> 100, range |-> 10000, x |-> -8176, y |-> -5758, z |-> 0, intensity |-> 24],
    [row |-> 9, col |-> 100, range |-> 10000, x |-> -8170, y |-> -5754, z |-> 386, intensity |-> 25],
    [row |-> 8, col |-> 101, range |-> 10000, x |-> -8140, y |-> -5808, z |-> 0, intensity |-> 26],
    \* 17..20: a grid of 4 rings and 4 columns (row r at elevation
    \* (r - 2) * VFOV_RESOLUTION, column c at azimuth (c - 2) * HFOV_RESOLUTION),
    \* all at 10 m; 17..19 lie in ring 1, 62 mm, 122 mm and 184 mm apart;
    \* 20 lies two rings above 19, more than 770 mm from the three
    [row |-> 1, col |-> 0, range |-> 10000, x |-> 9992, y |-> -123, z |-> -386, intensity |-> 27],
    [row |-> 1, col |-> 1, range |-> 10000, x |-> 9992, y |-> -61, z |-> -386, intensity |-> 28],
    [row |-> 1, col |-> 3, range |-> 10000, x |-> 9992, y |-> 61, z |-> -386, intensity |-> 29],
    [row |-> 3, col |-> 3, range |-> 10000, x |-> 9992, y |-> 61, z |-> 386, intensity |-> 30] >>

\* indices_corners_less_sharp / indices_surfs_less_flat: the indices of a
\* batch grouped by ring, one sequence per ring
ByRow(height, idxs) ==
    [r \in 1..height |-> SelectSeq(idxs, LAMBDA n : Cloud[n].row = r - 1)]

Scan(corners, surfs) ==
    [width   |-> 1024,
     height  |-> 16,
     corners |-> ByRow(16, corners),
     surfs   |-> ByRow(16, surfs)]

\* a scan of an organised grid of 4 rows and 4 columns
Grid4x4(corners, surfs) ==
    [width   |-> 4,
     height  |-> 4,
     corners |-> ByRow(4, corners),
     surfs   |-> ByRow(4, surfs)]

Scans == <<
    Scan(<< >>, << >>),
    Scan(<< 1, 2, 3, 4 >>, << >>),
    Scan(<< >>, << 1, 2, 3, 4 >>),
    Scan(<< 4 >>, << 1, 2, 3 >>),
    Scan(<< 1, 2, 3, 4 >>, << 5, 6 >>),
    Scan(<< 5, 6 >>, << 7, 8, 9 >>),
    Scan(<< 1, 2, 3 >>, << 10 >>),
    Scan(<< 5, 6, 10 >>, << 1, 2, 3 >>),
    Scan(<< 11, 13, 12 >>, << 14, 16, 15 >>),
    Scan(<< 14, 16, 15 >>, << 11, 13, 12 >>),
    Scan(<< 5, 6 >>, << 1, 2, 3, 4 >>),
    Grid4x4(<< 17, 18, 19, 20 >>, << 17, 18, 19, 20 >>) >>

RECURSIVE Flatten(_)
Flatten(rows) == IF rows = << >> THEN << >> ELSE Head(rows) \o Flatten(Tail(rows))

Range(s) == {s[k] : k \in 1..Len(s)}

\* feature_extraction.corner_points_less_sharp_count / surf_points_less_flat_count
FeaturesCount(indices_in_filt) == Len(Flatten(indices_in_filt))

getRowColInRawData(idx) == << Cloud[idx].row, Cloud[idx].col >>

getRange(idx) == Cloud[idx].range

\* ordered_table.at(i).at(j): the index of the batch at cell (i, j), or -1
buildOrderedFeatureTable(indices_in_filt, i, j) ==
    LET here == {n \in Range(Flatten(indices_in_filt)) :
                    Cloud[n].row = i /\ Cloud[n].col = j}
    IN  IF here = {} THEN -1 ELSE CHOOSE n \in here : TRUE

\* the pcl point stored for an index
PointOf(idx) ==
    [x |-> Cloud[idx].x, y |-> Cloud[idx].y, z |-> Cloud[idx].z,
     intensity |-> Cloud[idx].intensity]

\* (neighbor - point).norm() < max_range
NormLess(a, b, max_range) ==
    LET dx == Cloud[a].x - Cloud[b].x
        dy == Cloud[a].y - Cloud[b].y
        dz == Cloud[a].z - Cloud[b].z
    IN  /\ FLt(0, max_range)
        /\ Abs(dx) < max_range
        /\ Abs(dy) < max_range
        /\ Abs(dz) < max_range
        /\ dx * dx + dy * dy + dz * dz < max_range * max_range

\* ------------------------------------------------------------------------
\* getNearestNeighborLimits / getNeighborsInBB
\* ------------------------------------------------------------------------

getNearestNeighborLimits(point_distance) ==
    LET idx == point_distance \div NEIGH_IDX_PREC_RANGE_RES
    IN  IF idx < Len(neigh_idxs_rows_cols) THEN neigh_idxs_rows_cols[idx + 1]
        ELSE << >>

\* what row_col_idxs.back().first may yield on an empty vector: the read is
\* undefined; it faults, or it yields whatever lies before the storage
\* (as unsigned int; -1 stands for 0xFFFFFFFF)
BackOfEmpty == {[segv |-> TRUE, first |-> 0], [segv |-> FALSE, first |-> 0],
                [segv |-> FALSE, first |-> 1], [segv |-> FALSE, first |-> -1]}

NoUB == [segv |-> FALSE, first |-> 0]

\* the rows i = row_min .. row_max - 1 visited for a candidate
RowWindow(cloud_height, this_r, max_v_idx) ==
    Max(0, this_r - max_v_idx) .. (Min(cloud_height, this_r + max_v_idx + 1) - 1)

\* the columns j = col_min .. col_max - 1 visited in one row
ColWindow(cloud_width, this_c, h_idx) ==
    Max(0, this_c - h_idx) .. (Min(cloud_width, this_c + h_idx + 1) - 1)

\* the body of the loop over one candidate idx_in_filt:
\* [fault, neighbors] where neighbors are the indices whose positions are
\* pushed to neighbors_map[idx_in_filt]
CandidateNeighbors(scan, indices_in_filt, idx_in_filt, max_range, ub) ==
    LET this_r       == getRowColInRawData(idx_in_filt)[1]
        this_c       == getRowColInRawData(idx_in_filt)[2]
        d            == getRange(idx_in_filt)
        row_col_idxs == getNearestNeighborLimits(d)
        empty        == row_col_idxs = << >>
        max_v_idx    == IF empty THEN ub.first
                        ELSE row_col_idxs[Len(row_col_idxs)][1]
        rows         == RowWindow(scan.height, this_r, max_v_idx)
        at_throws    == \E i \in rows : Abs(i - this_r) >= Len(row_col_idxs)
    IN  IF empty /\ ub.segv THEN [fault |-> "segv", neighbors |-> {}]
        ELSE IF at_throws THEN [fault |-> "out_of_range", neighbors |-> {}]
        ELSE [fault |-> "none",
              neighbors |->
                {n \in Range(Flatten(indices_in_filt)) :
                    LET i == Cloud[n].row
                        j == Cloud[n].col
                    IN  /\ i \in rows
                        /\ j \in ColWindow(scan.width, this_c,
                                           row_col_idxs[Abs(i - this_r) + 1][2])
                        /\ ~(i = this_r /\ j = this_c)
                        /\ buildOrderedFeatureTable(indices_in_filt, i, j) = n
                        /\ NormLess(n, idx_in_filt, max_range)}]

\* the end of the loop over the candidates: the first fault met, or the map
\* from each candidate to its neighbours
NeighborsMap(cands, per) ==
    LET bad == {k \in 1..Len(cands) : per[cands[k]].fault # "none"}
    IN  IF bad # {}
        THEN [fault |-> per[cands[CHOOSE k \in bad : \A m \in bad : k <= m]].fault,
              neighbors_map |-> [n \in {} |-> {}]]
        ELSE [fault |-> "none",
              neighbors_map |-> [n \in Range(cands) |-> per[n].neighbors]]

\* [fault, neighbors_map]
getNeighborsInBB(scan, indices_in_filt, max_range, ub) ==
    NeighborsMap(Flatten(indices_in_filt),
                 [n \in Range(Flatten(indices_in_filt)) |->
                    CandidateNeighbors(scan, indices_in_filt, n, max_range, ub)])

\* ------------------------------------------------------------------------
\* estimateGradients
\* ------------------------------------------------------------------------

RECURSIVE SumOver(_, _)
SumOver(S, f) ==
    IF S = {} THEN 0
    ELSE LET n == CHOOSE m \in S : TRUE IN f[n] + SumOver(S \ {n}, f)

\* grad_norm = (gradient / float(neighbors.size())).norm() with
\* gradient = sum over the neighbours of (neighbor - point_xyz)   [micrometres]
GradNorm(idx, nbrs) ==
    LET gx == SumOver(nbrs, [n \in nbrs |-> Cloud[n].x - Cloud[idx].x])
        gy == SumOver(nbrs, [n \in nbrs |-> Cloud[n].y - Cloud[idx].y])
        gz == SumOver(nbrs, [n \in nbrs |-> Cloud[n].z - Cloud[idx].z])
    IN  (ISqrt(gx * gx + gy * gy + gz * gz) * 1000) \div Cardinality(nbrs)

RECURSIVE SeqMax(_)
SeqMax(s) == IF s = << >> THEN 0 ELSE Max(Head(s), SeqMax(Tail(s)))

RECURSIVE FSum(_)
FSum(s) == IF s = << >> THEN 0 ELSE FAdd(Head(s), FSum(Tail(s)))

\* gradient_norms.at(i).second /= grad_norm_max
Normalize(grad_norm, grad_norm_max) == FDiv(grad_norm, grad_norm_max)

\* grad_norm_mean /= float(grouped_features_count)
GradMean(sum, grouped_features_count) ==
    IF IsNaN(sum) \/ grouped_features_count = 0 THEN NaN
    ELSE sum \div grouped_features_count

\* the squared-deviation sum divided by the number of grouped features
\* (by the feature count where no feature is grouped and the sum is empty)
StdDivisor_Grouped(features_count, grouped_features_count) == IF grouped_features_count = 0 THEN features_count ELSE grouped_features_count

\* the divisor of the squared-deviation sum
StdDivisor(features_count, grouped_features_count) == features_count

\* grad_norm_std = sqrt(sum of pow(g - mean, 2) / float(features_count))
GradStd(norms, mean, features_count) ==
    LET devs == [k \in 1..Len(norms) |->
                    LET dv == FSub(norms[k], mean)
                    IN  IF IsNaN(dv) THEN NaN ELSE dv * dv]
        total == FSum(devs)
    IN  IF IsNaN(total) THEN NaN ELSE ISqrt(total \div features_count)

\* a comparator that sorts the gradients in ascending order
SortComp_Ascending(i, j) == FLt(i[2], j[2])

\* comp(i, j) of the std::sort call: i.second > j.second
SortComp(i, j) == FGt(i[2], j[2])

\* the orders std::sort may leave gradient_norms in: every permutation in
\* which no element compares before its predecessor
SortedOrders(gradient_norms) ==
    LET n == Len(gradient_norms)
        perms == {f \in [1..n -> 1..n] : \A a, b \in 1..n : f[a] = f[b] => a = b}
    IN  {[k \in 1..n |-> gradient_norms[f[k]]] :
            f \in {g \in perms :
                     \A k \in 1..(n - 1) :
                        ~SortComp(gradient_norms[g[k + 1]], gradient_norms[g[k]])}}

\* the statistics and the result tuple (before the sort), given the
\* normalised gradients norms of the grouped features
GradientStatistics(features_count, neighbors, grouped, standalone, grad_norm_max, norms) ==
    [fault |-> "none", neighbors_map |-> neighbors,
     standalone_points_indices |-> standalone,
     gradient_norms |-> [k \in 1..Len(grouped) |-> << grouped[k], norms[k] >>],
     grad_norm_max |-> grad_norm_max,
     grad_norm_mean |-> GradMean(FSum(norms), Len(grouped)),
     grad_norm_std |-> GradStd(norms, GradMean(FSum(norms), Len(grouped)),
                               StdDivisor(features_count, Len(grouped)))]

\* the normalisation loop, given the gradient magnitudes raw and their maximum
NormalizedGradients(features_count, neighbors, grouped, standalone, grad_norm_max, raw) ==
    GradientStatistics(features_count, neighbors, grouped, standalone, grad_norm_max,
                       [k \in 1..Len(raw) |-> Normalize(raw[k], grad_norm_max)])

\* the pass over the input cloud, given the grouped and the standalone
\* features: grad_norm per grouped feature and grad_norm_max
GroupedGradients(features_count, neighbors, grouped, standalone, raw) ==
    NormalizedGradients(features_count, neighbors, grouped, standalone, SeqMax(raw), raw)

\* the split of the candidates by neighbors[idx].size() > 0
SplitByNeighbors(features_count, neighbors, grouped, standalone) ==
    GroupedGradients(features_count, neighbors, grouped, standalone,
                     [k \in 1..Len(grouped) |-> GradNorm(grouped[k], neighbors[grouped[k]])])

GradientsOf(features_count, cands, nb) ==
    IF nb.fault # "none"
    THEN [fault |-> nb.fault, neighbors_map |-> nb.neighbors_map,
          standalone_points_indices |-> << >>, gradient_norms |-> << >>,
          grad_norm_max |-> 0, grad_norm_mean |-> 0, grad_norm_std |-> 0]
    ELSE SplitByNeighbors(features_count, nb.neighbors_map,
                          SelectSeq(cands, LAMBDA n : nb.neighbors_map[n] # {}),
                          SelectSeq(cands, LAMBDA n : nb.neighbors_map[n] = {}))

\* what estimateGradients returns, before the sort:
\* [fault, neighbors_map, standalone_points_indices, gradient_norms,
\*  grad_norm_max, grad_norm_mean, grad_norm_std]
estimateGradients(scan, features_count, indices_in_filt, search_radius, ub) ==
    GradientsOf(features_count, Flatten(indices_in_filt),
                getNeighborsInBB(scan, indices_in_filt, search_radius, ub))

\* ------------------------------------------------------------------------
\* selectFeaturesFromCloudByGradient
\* ------------------------------------------------------------------------

\* an index counted from the low end of the ranking
CutoffIndex_Complement(percentile, size) == ((GScale - percentile) * size) \div GScale

\* std::floor(percentile * gradients.size())
CutoffIndex(percentile, size) == (percentile * size) \div GScale

\* a selection test that is strict
Keeps_Strict(grad, grad_cutoff_thrd) == FGt(grad, grad_cutoff_thrd)

\* the test that selects a grouped feature
Keeps(grad, grad_cutoff_thrd) == FGe(grad, grad_cutoff_thrd)

\* a copy whose intensity is overwritten with the gradient
SelectedPoint_GradIntensity(cloud_idx, grad) == [PointOf(cloud_idx) EXCEPT !.intensity = grad]

\* the point copied to the output for a selected grouped feature
SelectedPoint(cloud_idx, grad) == PointOf(cloud_idx)

\* the points written to selected_features: the standalone ones, then the
\* grouped ones that pass the cutoff, in ranking order
SelectedFeatures(standalone_points_indices, gradients, grad_cutoff_thrd) ==
    LET kept == SelectSeq(gradients, LAMBDA g : Keeps(g[2], grad_cutoff_thrd))
    IN  [k \in 1..Len(standalone_points_indices) |-> PointOf(standalone_points_indices[k])]
        \o [k \in 1..Len(kept) |-> SelectedPoint(kept[k][1], kept[k][2])]

\* gradient_norms_all: 1.0 per standalone feature, then the ranking
GradientNormsAll(standalone_points_indices, gradients) ==
    [k \in 1..Len(standalone_points_indices) |-> GScale]
    \o [k \in 1..Len(gradients) |-> gradients[k][2]]

EmptyMap == [n \in {} |-> {}]

\* the pipeline of one category has not run in this call
NotRun ==
    [ran |-> FALSE, fault |-> "none", estimated |-> FALSE, features_count |-> 0,
     search_radius |-> 0, percentile |-> 0, neighbors_map |-> EmptyMap,
     standalone_points_indices |-> << >>, gradients |-> << >>,
     grad_norm_max |-> 0, cutoff_index |-> 0,
     selected_features |-> << >>, gradient_norms_all |-> << >>,
     grad_norm_mean |-> 0, grad_norm_std |-> 0, grad_cutoff_thrd |-> 0]

\* does the batch hold a feature whose envelope lookup comes back empty?
ReadsBackOfEmpty(indices_in_filt) ==
    \E n \in Range(Flatten(indices_in_filt)) : getNearestNeighborLimits(getRange(n)) = << >>

\* the rest of the call once the cutoff index idx is computed:
\* gradients.at(idx) throws when idx is not below gradients.size()
SelectAt(est, standalone_points_indices, gradients, idx) ==
    IF idx >= Len(gradients)
    THEN [est EXCEPT !.fault = "out_of_range", !.gradients = gradients,
                     !.cutoff_index = idx]
    ELSE [est EXCEPT
            !.gradients = gradients,
            !.cutoff_index = idx,
            !.grad_cutoff_thrd = gradients[idx + 1][2],
            !.selected_features =
                SelectedFeatures(standalone_points_indices, gradients,
                                 gradients[idx + 1][2]),
            !.gradient_norms_all =
                GradientNormsAll(standalone_points_indices, gradients)]

\* the outcomes of the call given what estimateGradients computed: one per
\* order std::sort may leave the ranking in
SelectionsFrom(base, percentile, eg) ==
    IF eg.fault # "none" THEN {[base EXCEPT !.fault = eg.fault]}
    ELSE {SelectAt([base EXCEPT !.estimated = TRUE,
                                !.neighbors_map = eg.neighbors_map,
                                !.standalone_points_indices = eg.standalone_points_indices,
                                !.grad_norm_max = eg.grad_norm_max,
                                !.grad_norm_mean = eg.grad_norm_mean,
                                !.grad_norm_std = eg.grad_norm_std],
                   eg.standalone_points_indices, gradients,
                   CutoffIndex(percentile, Len(gradients)))
          : gradients \in SortedOrders(eg.gradient_norms)}

\* the record of a call before anything is computed
CallRecord(features_count, search_radius, percentile) ==
    [NotRun EXCEPT !.ran = TRUE, !.features_count = features_count,
                   !.search_radius = search_radius, !.percentile = percentile]

\* the outcomes of one call: a set, since an undefined read and the order of
\* tied gradients after std::sort are not determined by the inputs
selectFeaturesFromCloudByGradient(scan, features_count, indices_in_filt, search_radius, percentile) ==
    IF features_count = 0
    THEN {[CallRecord(features_count, search_radius, percentile) EXCEPT
             !.grad_norm_mean = SENTINEL, !.grad_norm_std = SENTINEL,
             !.grad_cutoff_thrd = SENTINEL]}
    ELSE UNION {SelectionsFrom(CallRecord(features_count, search_radius, percentile),
                               percentile,
                               estimateGradients(scan, features_count, indices_in_filt,
                                                 search_radius, ub))
                : ub \in (IF ReadsBackOfEmpty(indices_in_filt) THEN BackOfEmpty
                          ELSE {NoUB})}

\* ------------------------------------------------------------------------
\* estimateResolution, publishCloud, selectFeatures
\* ------------------------------------------------------------------------

\* the line run from max_res down to min_res
estimateResolution_Complement(percent, fnc_sorted, min_res, max_res) ==
    FAdd(min_res, FMul(FSub(GScale, percent), max_res - min_res))

\* the resolution read from the sorted list at the rank the percentage names
estimateResolution_Lookup(percent, fnc_sorted, min_res, max_res) ==
    IF Len(fnc_sorted) = 0 \/ IsNaN(percent) THEN min_res
    ELSE LET idx == Max(0, Min(Len(fnc_sorted) - 1, (percent * Len(fnc_sorted)) \div GScale))
         IN  FAdd(min_res, FMul(fnc_sorted[idx + 1], max_res - min_res))

\* return min_res + (percent) * (max_res - min_res)
estimateResolution(percent, fnc_sorted, min_res, max_res) ==
    FAdd(min_res, FMul(percent, max_res - min_res))

\* what the visualisation side does during one call: subscribers of the two
\* publishers and whether publish() throws
PubEnvs == {[subs_corners |-> 0, subs_surfs |-> 0, throws |-> FALSE],
            [subs_corners |-> 1, subs_surfs |-> 1, throws |-> FALSE],
            [subs_corners |-> 1, subs_surfs |-> 0, throws |-> TRUE]}

\* publishing without asking for the subscribers
publishCloud_Always(num_subscribers, throws) == [sent |-> TRUE, caught |-> throws]

\* [sent, caught]: was publish() called, and was an exception caught
publishCloud(num_subscribers, throws) ==
    IF num_subscribers > 0
    THEN [sent |-> TRUE, caught |-> throws]
    ELSE [sent |-> FALSE, caught |-> FALSE]

NotPublished == [sent |-> FALSE, caught |-> FALSE]

\* extracted_features->getLessSharpCorners() / getLessFlatSurfs()
InputCloud(indices_in_filt) ==
    LET cands == Flatten(indices_in_filt)
    IN  [k \in 1..Len(cands) |-> PointOf(cands[k])]

\* _features_selection_enabled, _corners_keep_percentile, _surfs_keep_percentile
Configs ==
    { << TRUE, 500, 500 >>, << FALSE, 500, 500 >>, << TRUE, 0, 1000 >>,
      << TRUE, 1000, 900 >>, << TRUE, 900, 0 >>, << TRUE, 0, 0 >> }

NoCall ==
    [kind |-> "none", scan |-> 0, corner |-> NotRun, surf |-> NotRun,
     ret_corners |-> << >>, ret_surfs |-> << >>,
     ret_resolution_corners |-> 0, ret_resolution_surfs |-> 0,
     prev_resolution_corners |-> 0, prev_resolution_surfs |-> 0,
     pub_corners |-> NotPublished, pub_surfs |-> NotPublished,
     env |-> [subs_corners |-> 0, subs_surfs |-> 0, throws |-> FALSE]]

\* the threads that call selectFeatures on the object without a lock
Threads == {1, 2}

\* a thread that has not called selectFeatures
Idle ==
    [at |-> "idle", scan |-> 0, corner |-> NotRun, surf |-> NotRun,
     diag_corners |-> 0, diag_surfs |-> 0,
     ret_resolution_corners |-> 0, ret_resolution_surfs |-> 0,
     pub_corners |-> NotPublished, pub_surfs |-> NotPublished,
     overlapped |-> FALSE]

NoInvocations == [t \in Threads |-> Idle]

Init ==
    /\ pc = "ctor"
    /\ sample = 0
    /\ stop = FALSE
    /\ neigh_idxs_rows_cols = << >>
    /\ \E cfg \in Configs :
          /\ features_selection_enabled = cfg[1]
          /\ corners_keep_percentile = cfg[2]
          /\ surfs_keep_percentile = cfg[3]
    /\ resolution_corners = (RESOLUTION_CORNERS_MAX + RESOLUTION_CORNERS_MIN) \div 2
    /\ resolution_surfs = (RESOLUTION_SURFS_MAX + RESOLUTION_SURFS_MIN) \div 2
    /\ calls = 0
    /\ last = NoCall
    /\ invocations = NoInvocations

\* one iteration of while (!stop)
BuildBucket ==
    /\ pc = "ctor"
    /\ ~stop
    /\ sample < MaxSample
    /\ neigh_idxs_rows_cols' =
          Append(neigh_idxs_rows_cols, BucketIdxs(sample * NEIGH_IDX_PREC_RANGE_RES))
    /\ stop' = BucketStops(neigh_idxs_rows_cols'[sample + 1])
    /\ sample' = sample + 1
    /\ UNCHANGED << pc, features_selection_enabled, corners_keep_percentile,
                    surfs_keep_percentile, resolution_corners, resolution_surfs,
                    calls, last, invocations >>

\* the loop has ended: the publishers are advertised and the object is ready
CtorDone ==
    /\ pc = "ctor"
    /\ stop
    /\ pc' = "ready"
    /\ UNCHANGED << sample, stop, neigh_idxs_rows_cols, features_selection_enabled,
                    corners_keep_percentile, surfs_keep_percentile,
                    resolution_corners, resolution_surfs, calls, last, invocations >>

\* the record of a call that ended in a fault: nothing is returned and the
\* two scalars are not written
Faulted(s, corner, surf) ==
    [NoCall EXCEPT !.kind = "faulted", !.scan = s, !.corner = corner, !.surf = surf,
                   !.prev_resolution_corners = resolution_corners,
                   !.prev_resolution_surfs = resolution_surfs]

\* a pass-through that hands the two batches back in each other's place
PassThrough_Swapped(scan) ==
    << InputCloud(scan.surfs), InputCloud(scan.corners),
       resolution_corners, resolution_surfs >>

\* the tuple returned when selection is disabled
PassThrough(scan) ==
    << InputCloud(scan.corners), InputCloud(scan.surfs),
       resolution_corners, resolution_surfs >>

\* one call of selectFeatures on scan s
selectFeatures(s, env) ==
    LET scan == Scans[s]
    IN
    IF ~features_selection_enabled
    THEN /\ last' = [NoCall EXCEPT
                       !.kind = "disabled", !.scan = s,
                       !.ret_corners = PassThrough(scan)[1],
                       !.ret_surfs = PassThrough(scan)[2],
                       !.ret_resolution_corners = PassThrough(scan)[3],
                       !.ret_resolution_surfs = PassThrough(scan)[4],
                       !.prev_resolution_corners = resolution_corners,
                       !.prev_resolution_surfs = resolution_surfs]
         /\ UNCHANGED << pc, resolution_corners, resolution_surfs >>
    ELSE
      \E corner \in selectFeaturesFromCloudByGradient(
                        scan, FeaturesCount(scan.corners), scan.corners,
                        resolution_corners, corners_keep_percentile) :
        IF corner.fault # "none"
        THEN /\ last' = Faulted(s, corner, NotRun)
             /\ pc' = "faulted"
             /\ UNCHANGED << resolution_corners, resolution_surfs >>
        ELSE
          \E surf \in selectFeaturesFromCloudByGradient(
                          scan, FeaturesCount(scan.surfs), scan.surfs,
                          resolution_surfs, surfs_keep_percentile) :
            IF surf.fault # "none"
            THEN /\ last' = Faulted(s, corner, surf)
                 /\ pc' = "faulted"
                 /\ UNCHANGED << resolution_corners, resolution_surfs >>
            ELSE
              LET new_corners == estimateResolution(corner.grad_cutoff_thrd,
                                     corner.gradient_norms_all,
                                     RESOLUTION_CORNERS_MIN, RESOLUTION_CORNERS_MAX)
                  new_surfs   == estimateResolution(surf.grad_cutoff_thrd,
                                     surf.gradient_norms_all,
                                     RESOLUTION_SURFS_MIN, RESOLUTION_SURFS_MAX)
              IN  /\ resolution_corners' = new_corners
                  /\ resolution_surfs' = new_surfs
                  /\ last' = [NoCall EXCEPT
                                !.kind = "returned", !.scan = s,
                                !.corner = corner, !.surf = surf,
                                !.ret_corners = corner.selected_features,
                                !.ret_surfs = surf.selected_features,
                                !.ret_resolution_corners = new_corners,
                                !.ret_resolution_surfs = new_surfs,
                                !.prev_resolution_corners = resolution_corners,
                                !.prev_resolution_surfs = resolution_surfs,
                                !.pub_corners = publishCloud(env.subs_corners, env.throws),
                                !.pub_surfs = publishCloud(env.subs_surfs, env.throws),
                                !.env = env]
                  /\ UNCHANGED pc

SelectFeatures ==
    /\ pc = "ready"
    /\ calls < MaxCalls
    /\ \E s \in 1..Len(Scans), env \in PubEnvs : selectFeatures(s, env)
    /\ calls' = calls + 1
    /\ UNCHANGED << sample, stop, neigh_idxs_rows_cols, features_selection_enabled,
                    corners_keep_percentile, surfs_keep_percentile, invocations >>

Next == BuildBucket \/ CtorDone \/ SelectFeatures

Spec == Init /\ [][Next]_vars

\* one step of the constructor seen through its position: the loop of
\* lines 34-56 runs its next iteration while stop is unset, and control
\* leaves the loop once it is set
CtorStep ==
    /\ pc = "ctor"
    /\ stop \/ sample < MaxSample
    /\ IF stop THEN pc' = "ready" /\ sample' = sample
               ELSE pc' = pc /\ sample' = sample + 1

\* the thread that executes the constructor keeps running: a step of the
\* constructor (BuildBucket or CtorDone, the only steps of Next that change
\* pc or sample while pc = "ctor") that stays possible is eventually taken
FairSpec == Spec /\ WF_<< pc, sample >>(CtorStep)

\* ------------------------------------------------------------------------
\* estimateResolution on its own
\* ------------------------------------------------------------------------

\* arguments of estimateResolution: percentages inside and outside [0, 1]
\* and the NaN cutoff of a faultless batch without usable gradients
EstimatePercents == {0, 1, 196, 500, 803, 999, GScale, 1500, -250, NaN}

\* sorted gradient lists (descending)
EstimateLists == {<< >>, << 600 >>, << 1000, 803, 196 >>, << 1000, 1000, 0 >>}

\* pairs (min_res, max_res): the two default pairs, a degenerate pair, an
\* inverted pair and a pair below zero
EstimateBounds ==
    {<< RESOLUTION_CORNERS_MIN, RESOLUTION_CORNERS_MAX >>,
     << RESOLUTION_SURFS_MIN, RESOLUTION_SURFS_MAX >>,
     << 300, 300 >>, << 900, 200 >>, << -400, 150 >>}

\* a call of estimateResolution that has its arguments and has not run; the
\* function reads no member of the object, and the members stay at zero
EstimateInit ==
    /\ pc = "estimateResolution"
    /\ sample = 0
    /\ stop = FALSE
    /\ neigh_idxs_rows_cols = << >>
    /\ features_selection_enabled = TRUE
    /\ corners_keep_percentile = 0
    /\ surfs_keep_percentile = 0
    /\ resolution_corners = 0
    /\ resolution_surfs = 0
    /\ calls = 0
    /\ invocations = NoInvocations
    /\ \E percent \in EstimatePercents, fnc_sorted \in EstimateLists, b \in EstimateBounds :
          last = [kind |-> "arguments", percent |-> percent, fnc_sorted |-> fnc_sorted,
                  min_res |-> b[1], max_res |-> b[2], result |-> 0]

\* the call runs and returns
Estimate ==
    /\ last.kind = "arguments"
    /\ last' = [last EXCEPT !.kind = "estimated",
                  !.result = estimateResolution(last.percent, last.fnc_sorted,
                                                last.min_res, last.max_res)]
    /\ UNCHANGED << pc, sample, stop, neigh_idxs_rows_cols, features_selection_enabled,
                    corners_keep_percentile, surfs_keep_percentile,
                    resolution_corners, resolution_surfs, calls, invocations >>

EstimateNext == Estimate

EstimateSpec == EstimateInit /\ [][EstimateNext]_vars

\* ------------------------------------------------------------------------
\* selectFeatures called from two threads without a lock
\* ------------------------------------------------------------------------

\* the scans the two threads hand in
ConcurrentScans == {5, 9, 12}

Other(t) == CHOOSE u \in Threads : u # t

InFlight(inv) == inv.at \notin {"idle", "returned", "faulted"}

\* the object is constructed as in Init, with selection enabled
ConcurrentInit ==
    /\ Init
    /\ features_selection_enabled
    /\ corners_keep_percentile = 500
    /\ surfs_keep_percentile = 500

\* thread t enters selectFeatures (lines 70-85); the flag overlapped notes,
\* for both invocations, that they are in flight at the same time
Enter(t) ==
    /\ pc = "ready"
    /\ features_selection_enabled
    /\ invocations[t].at = "idle"
    /\ \E s \in ConcurrentScans :
          invocations' =
             [u \in Threads |->
                IF u = t
                THEN [Idle EXCEPT !.at = "corners", !.scan = s,
                                  !.overlapped = InFlight(invocations[Other(t)])]
                ELSE [invocations[u] EXCEPT
                        !.overlapped = @ \/ InFlight(invocations[u])]]
    /\ calls' = calls + 1
    /\ UNCHANGED << pc, sample, stop, neigh_idxs_rows_cols, features_selection_enabled,
                    corners_keep_percentile, surfs_keep_percentile,
                    resolution_corners, resolution_surfs, last >>

\* lines 88-90: the corner pipeline; its radius is the member
\* _resolution_corners, handed over by reference
RunCorners(t) ==
    /\ pc = "ready"
    /\ invocations[t].at = "corners"
    /\ \E corner \in selectFeaturesFromCloudByGradient(
                        Scans[invocations[t].scan],
                        FeaturesCount(Scans[invocations[t].scan].corners),
                        Scans[invocations[t].scan].corners,
                        resolution_corners, corners_keep_percentile) :
          /\ invocations' = [invocations EXCEPT
                ![t].corner = corner,
                ![t].at = IF corner.fault # "none" THEN "faulted" ELSE "surfs"]
          /\ pc' = IF corner.fault # "none" THEN "faulted" ELSE pc
    /\ UNCHANGED << sample, stop, neigh_idxs_rows_cols, features_selection_enabled,
                    corners_keep_percentile, surfs_keep_percentile,
                    resolution_corners, resolution_surfs, calls, last >>

\* lines 94-96: the surface pipeline, with the member _resolution_surfs
RunSurfs(t) ==
    /\ pc = "ready"
    /\ invocations[t].at = "surfs"
    /\ \E surf \in selectFeaturesFromCloudByGradient(
                      Scans[invocations[t].scan],
                      FeaturesCount(Scans[invocations[t].scan].surfs),
                      Scans[invocations[t].scan].surfs,
                      resolution_surfs, surfs_keep_percentile) :
          /\ invocations' = [invocations EXCEPT
                ![t].surf = surf,
                ![t].at = IF surf.fault # "none" THEN "faulted" ELSE "write_corners"]
          /\ pc' = IF surf.fault # "none" THEN "faulted" ELSE pc
    /\ UNCHANGED << sample, stop, neigh_idxs_rows_cols, features_selection_enabled,
                    corners_keep_percentile, surfs_keep_percentile,
                    resolution_corners, resolution_surfs, calls, last >>

\* line 99: _resolution_corners = estimateResolution(corner_grad_cutoff, ...)
WriteCorners(t) ==
    /\ pc = "ready"
    /\ invocations[t].at = "write_corners"
    /\ resolution_corners' =
          estimateResolution(invocations[t].corner.grad_cutoff_thrd,
                             invocations[t].corner.gradient_norms_all,
                             RESOLUTION_CORNERS_MIN, RESOLUTION_CORNERS_MAX)
    /\ invocations' = [invocations EXCEPT ![t].at = "write_surfs"]
    /\ UNCHANGED << pc, sample, stop, neigh_idxs_rows_cols, features_selection_enabled,
                    corners_keep_percentile, surfs_keep_percentile,
                    resolution_surfs, calls, last >>

\* line 100: _resolution_surfs = estimateResolution(surf_grad_cutoff, ...)
WriteSurfs(t) ==
    /\ pc = "ready"
    /\ invocations[t].at = "write_surfs"
    /\ resolution_surfs' =
          estimateResolution(invocations[t].surf.grad_cutoff_thrd,
                             invocations[t].surf.gradient_norms_all,
                             RESOLUTION_SURFS_MIN, RESOLUTION_SURFS_MAX)
    /\ invocations' = [invocations EXCEPT ![t].at = "diag_corners"]
    /\ UNCHANGED << pc, sample, stop, neigh_idxs_rows_cols, features_selection_enabled,
                    corners_keep_percentile, surfs_keep_percentile,
                    resolution_corners, calls, last >>

\* line 107: diag_msg.corners_resolution = _resolution_corners
DiagCorners(t) ==
    /\ pc = "ready"
    /\ invocations[t].at = "diag_corners"
    /\ invocations' = [invocations EXCEPT ![t].diag_corners = resolution_corners,
                                          ![t].at = "diag_surfs"]
    /\ UNCHANGED << pc, sample, stop, neigh_idxs_rows_cols, features_selection_enabled,
                    corners_keep_percentile, surfs_keep_percentile,
                    resolution_corners, resolution_surfs, calls, last >>

\* line 108: diag_msg.surfs_resolution = _resolution_surfs
DiagSurfs(t) ==
    /\ pc = "ready"
    /\ invocations[t].at = "diag_surfs"
    /\ invocations' = [invocations EXCEPT ![t].diag_surfs = resolution_surfs,
                                          ![t].at = "publish"]
    /\ UNCHANGED << pc, sample, stop, neigh_idxs_rows_cols, features_selection_enabled,
                    corners_keep_percentile, surfs_keep_percentile,
                    resolution_corners, resolution_surfs, calls, last >>

\* lines 125-126: the two publishCloud calls
Publish(t) ==
    /\ pc = "ready"
    /\ invocations[t].at = "publish"
    /\ \E env \in PubEnvs :
          invocations' = [invocations EXCEPT
             ![t].pub_corners = publishCloud(env.subs_corners, env.throws),
             ![t].pub_surfs = publishCloud(env.subs_surfs, env.throws),
             ![t].at = "return_corners"]
    /\ UNCHANGED << pc, sample, stop, neigh_idxs_rows_cols, features_selection_enabled,
                    corners_keep_percentile, surfs_keep_percentile,
                    resolution_corners, resolution_surfs, calls, last >>

\* line 130: the read of _resolution_corners for the returned tuple
ReturnCorners(t) ==
    /\ pc = "ready"
    /\ invocations[t].at = "return_corners"
    /\ invocations' = [invocations EXCEPT ![t].ret_resolution_corners = resolution_corners,
                                          ![t].at = "return_surfs"]
    /\ UNCHANGED << pc, sample, stop, neigh_idxs_rows_cols, features_selection_enabled,
                    corners_keep_percentile, surfs_keep_percentile,
                    resolution_corners, resolution_surfs, calls, last >>

\* line 130: the read of _resolution_surfs, and the return
ReturnSurfs(t) ==
    /\ pc = "ready"
    /\ invocations[t].at = "return_surfs"
    /\ invocations' = [invocations EXCEPT ![t].ret_resolution_surfs = resolution_surfs,
                                          ![t].at = "returned"]
    /\ UNCHANGED << pc, sample, stop, neigh_idxs_rows_cols, features_selection_enabled,
                    corners_keep_percentile, surfs_keep_percentile,
                    resolution_corners, resolution_surfs, calls, last >>

ConcurrentNext ==
    \/ BuildBucket
    \/ CtorDone
    \/ \E t \in Threads :
          \/ Enter(t)
          \/ RunCorners(t)
          \/ RunSurfs(t)
          \/ WriteCorners(t)
          \/ WriteSurfs(t)
          \/ DiagCorners(t)
          \/ DiagSurfs(t)
          \/ Publish(t)
          \/ ReturnCorners(t)
          \/ ReturnSurfs(t)

ConcurrentSpec == ConcurrentInit /\ [][ConcurrentNext]_vars

\* ------------------------------------------------------------------------
\* Properties
\* ------------------------------------------------------------------------

\* the pipeline runs of the last call, each with the batch it was given
Runs ==
    IF last.kind = "none" THEN {}
    ELSE {[rec |-> last.corner, batch |-> Scans[last.scan].corners],
          [rec |-> last.surf, batch |-> Scans[last.scan].surfs]}

\* the runs that went through estimateGradients without a fault in it
Estimated == {r.rec : r \in {q \in Runs : q.rec.estimated}}

\* the runs that returned a result for a non-empty batch
Returned == {rec \in Estimated : rec.fault = "none"}

Within(v, lo, hi) == FGe(v, lo) /\ FGe(hi, v)

Clamp(v, lo, hi) == Max(lo, Min(v, hi))

\* positions in the ranking of the grouped features the output retains
KeptRanks(rec) ==
    {k \in 1..Len(rec.gradients) :
        PointOf(rec.gradients[k][1]) \in Range(rec.selected_features)}

\* C1: after any sequence of selectFeatures calls the persistent corner and
\* surface resolutions lie within their configured [min, max], and so do
\* the two resolutions every call returns.
C1_ResolutionsWithinBounds ==
    /\ Within(resolution_corners, RESOLUTION_CORNERS_MIN, RESOLUTION_CORNERS_MAX)
    /\ Within(resolution_surfs, RESOLUTION_SURFS_MIN, RESOLUTION_SURFS_MAX)
    /\ last.kind \in {"disabled", "returned"} =>
          /\ Within(last.ret_resolution_corners,
                    RESOLUTION_CORNERS_MIN, RESOLUTION_CORNERS_MAX)
          /\ Within(last.ret_resolution_surfs,
                    RESOLUTION_SURFS_MIN, RESOLUTION_SURFS_MAX)

\* C2: for every keep-percentile p in [0, 1] and every ranking length
\* N >= 1 the index used to read the cutoff is clamp(floor(p * N), 0, N - 1),
\* so the read never raises an out-of-range fault.
C2_CutoffIndexClamped ==
    \A rec \in Estimated :
        Len(rec.gradients) >= 1 =>
            /\ rec.cutoff_index =
                  Clamp((rec.percentile * Len(rec.gradients)) \div GScale,
                        0, Len(rec.gradients) - 1)
            /\ rec.fault # "out_of_range"

\* the result of an exhaustive radius search for candidate c among the
\* features of its batch
ExhaustiveNeighbors(rec, c) ==
    {n \in (DOMAIN rec.neighbors_map) \ {c} : NormLess(n, c, rec.search_radius)}

\* C3: the neighbour set getNeighborsInBB returns for a candidate is exactly
\* the set of the other features of the grid strictly closer to it than the
\* search radius.
C3_NeighborsMatchExhaustiveSearch ==
    \A rec \in Estimated :
        \A c \in DOMAIN rec.neighbors_map :
            rec.neighbors_map[c] = ExhaustiveNeighbors(rec, c)

\* C4: when the range of a candidate is beyond the last bucket of the
\* angular table, the neighbour search finishes without a fault and gives
\* the candidate zero neighbours.
C4_BeyondTableNoFault ==
    \A r \in Runs :
        (r.rec.ran /\ r.rec.features_count > 0 /\ ReadsBackOfEmpty(r.batch)) =>
            /\ r.rec.estimated
            /\ \A n \in DOMAIN r.rec.neighbors_map :
                  getNearestNeighborLimits(getRange(n)) = << >> =>
                      r.rec.neighbors_map[n] = {}

\* C5: when no feature of a non-empty batch has a neighbour (the ranking
\* has length 0), selectFeaturesFromCloudByGradient completes without a
\* fault.
C5_AllStandaloneNoFault ==
    \A rec \in Estimated :
        (rec.features_count > 0 /\ Len(rec.gradients) = 0) => rec.fault = "none"

C7_NormalizedGradientsWellDefined ==
    \A rec \in Estimated :
        Len(rec.gradients) >= 1 =>
            LET ones == {k \in 1..Len(rec.gradients) : rec.gradients[k][2] = GScale}
                tops == {k \in 1..Len(rec.gradients) :
                            \A m \in 1..Len(rec.gradients) :
                                rec.gradients[m][2] <= rec.gradients[k][2]}
            IN  /\ rec.grad_norm_max # 0
                /\ \A k \in 1..Len(rec.gradients) :
                      Within(rec.gradients[k][2], 0, GScale)
                /\ ones # {}
                /\ Cardinality(tops) = 1 => Cardinality(ones) = 1

\* C8: for a batch of feature count 0, selectFeaturesFromCloudByGradient
\* returns an empty cloud, an empty gradient list and mean = stddev =
\* cutoff = -1, without running the neighbour search or the gradient
\* estimation.
C8_EmptyBatchSentinels ==
    \A r \in Runs :
        (r.rec.ran /\ r.rec.features_count = 0) =>
            /\ r.rec.fault = "none"
            /\ r.rec.selected_features = << >>
            /\ r.rec.gradient_norms_all = << >>
            /\ r.rec.grad_norm_mean = 0 - GScale
            /\ r.rec.grad_norm_std = 0 - GScale
            /\ r.rec.grad_cutoff_thrd = 0 - GScale
            /\ ~r.rec.estimated
            /\ r.rec.neighbors_map = EmptyMap

\* an enabled call whose corner batch is empty has returned
C8_Witness ==
    /\ last.kind = "returned"
    /\ last.corner.ran
    /\ last.corner.features_count = 0
    /\ Flatten(Scans[last.scan].corners) = << >>

\* C9: when feature selection is disabled, every selectFeatures call
\* returns the input corner batch and the input surface batch unchanged
\* with the current resolutions, leaves both persistent resolutions
\* unchanged, runs neither pipeline and publishes nothing.
C9_DisabledPassesThrough ==
    (~features_selection_enabled /\ calls > 0) =>
        /\ last.kind = "disabled"
        /\ last.ret_corners = InputCloud(Scans[last.scan].corners)
        /\ last.ret_surfs = InputCloud(Scans[last.scan].surfs)
        /\ last.ret_resolution_corners = last.prev_resolution_corners
        /\ last.ret_resolution_surfs = last.prev_resolution_surfs
        /\ resolution_corners = last.prev_resolution_corners
        /\ resolution_surfs = last.prev_resolution_surfs
        /\ resolution_corners = (RESOLUTION_CORNERS_MAX + RESOLUTION_CORNERS_MIN) \div 2
        /\ resolution_surfs = (RESOLUTION_SURFS_MAX + RESOLUTION_SURFS_MIN) \div 2
        /\ ~last.corner.ran
        /\ ~last.surf.ran
        /\ ~last.pub_corners.sent
        /\ ~last.pub_surfs.sent

\* a second disabled call has returned two non-empty batches
C9_Witness ==
    /\ ~features_selection_enabled
    /\ calls = 2
    /\ last.kind = "disabled"
    /\ Len(last.ret_corners) > 0
    /\ Len(last.ret_surfs) > 0

\* the ranking holds a NaN (the divisor of the normalisation was zero)
HasNaN(rec) == \E k \in 1..Len(rec.gradients) : IsNaN(rec.gradients[k][2])

Percentiles == {cfg[2] : cfg \in Configs} \cup {cfg[3] : cfg \in Configs}

\* the gradients of the ranking are numbers and pairwise distinct
DistinctGradients(rec) ==
    /\ ~HasNaN(rec)
    /\ \A k, m \in 1..Len(rec.gradients) :
          k # m => rec.gradients[k][2] # rec.gradients[m][2]

\* the keep-percentiles whose cutoff read lies inside the ranking of rec
ReadablePercentiles(rec) ==
    {p \in Percentiles : CutoffIndex(p, Len(rec.gradients)) < Len(rec.gradients)}

\* how many grouped features of the ranking of rec the selection loop keeps
\* at keep-percentile p
KeptAt(rec, p) ==
    Len(SelectedFeatures(<< >>, rec.gradients,
            rec.gradients[CutoffIndex(p, Len(rec.gradients)) + 1][2]))

GridScenario ==
    {r \in Runs :
        /\ last.kind = "returned"
        /\ Scans[last.scan].width = 4
        /\ Scans[last.scan].height = 4
        /\ 2 * r.rec.percentile = GScale
        /\ LET feats == Range(Flatten(r.batch))
           IN  /\ Cardinality(feats) = 4
               /\ \E iso \in feats :
                     /\ \A n \in feats \ {iso} : ~NormLess(n, iso, r.rec.search_radius)
                     /\ \A n, m \in feats \ {iso} :
                           n # m => NormLess(n, m, r.rec.search_radius)}

\* the isolated feature of a batch of the grid scenario
Isolated(r) ==
    CHOOSE iso \in Range(Flatten(r.batch)) :
        \A n \in Range(Flatten(r.batch)) \ {iso} : ~NormLess(n, iso, r.rec.search_radius)

Collapsed(idxs) == idxs[1][1] = 0 /\ idxs[1][2] = 0

\* one bucket was appended per sample; a bucket is collapsed exactly when
\* it is the last one appended and the loop has stopped after it
TableStopsAtFirstCollapse ==
    /\ Len(neigh_idxs_rows_cols) = sample
    /\ \A s \in 1..Len(neigh_idxs_rows_cols) :
          /\ Len(neigh_idxs_rows_cols[s]) >= 1
          /\ Collapsed(neigh_idxs_rows_cols[s]) <=> (stop /\ s = Len(neigh_idxs_rows_cols))
    /\ stop => Len(neigh_idxs_rows_cols) >= 1
    /\ pc # "ctor" => stop

\* C13: the construction of the angular table terminates after finitely
\* many buckets; the loop stops at the first bucket whose max_row_offset and
\* max_col_offset(0) are both 0, that bucket is the last one appended, and
\* no earlier bucket is collapsed to (0, 0).
C13_TableConstructionTerminates ==
    /\ <>(pc = "ready")
    /\ []TableStopsAtFirstCollapse
    /\ [][stop => neigh_idxs_rows_cols' = neigh_idxs_rows_cols]_vars

\* the constructor has finished with a table of several buckets whose last
\* bucket is the collapsed one
C13_Witness ==
    /\ pc = "ready"
    /\ stop
    /\ Len(neigh_idxs_rows_cols) > 2
    /\ neigh_idxs_rows_cols[Len(neigh_idxs_rows_cols)] = << << 0, 0 >> >>
    /\ ~Collapsed(neigh_idxs_rows_cols[Len(neigh_idxs_rows_cols) - 1])


\* ------------------------------------------------------------------------
\* C14: the envelope of the angular table shrinks as the range grows
\* ------------------------------------------------------------------------

\* max_row_offset of a bucket: the first component of its pairs
MaxRowOffset(idxs) == idxs[1][1]

\* max_col_offset(i) of a bucket, i = 0..max_row_offset
MaxColOffset(idxs, i) == idxs[i + 1][2]

\* bucket next has no larger envelope than bucket prev
EnvelopeWithin(next, prev) ==
    /\ MaxRowOffset(next) <= MaxRowOffset(prev)
    /\ \A i \in 0..(Min(Len(next), Len(prev)) - 1) :
          MaxColOffset(next, i) <= MaxColOffset(prev, i)

\* C14: in the angular table, as far as it is built, each bucket's
\* max_row_offset is at most that of the bucket before it, and so is its
\* max_col_offset(i) for every row offset i that both buckets have
C14_TableIsMonotone ==
    \A s \in 1..(Len(neigh_idxs_rows_cols) - 1) :
        EnvelopeWithin(neigh_idxs_rows_cols[s + 1], neigh_idxs_rows_cols[s])

\* the table is complete, and along it the row envelope and the column
\* envelope of a row offset above 0 have both shrunk strictly
C14_Witness ==
    /\ pc = "ready"
    /\ \E s \in 1..(Len(neigh_idxs_rows_cols) - 1) :
          MaxRowOffset(neigh_idxs_rows_cols[s + 1]) < MaxRowOffset(neigh_idxs_rows_cols[s])
    /\ \E s \in 1..(Len(neigh_idxs_rows_cols) - 1) :
          /\ Len(neigh_idxs_rows_cols[s + 1]) > 1
          /\ MaxColOffset(neigh_idxs_rows_cols[s + 1], 1) < MaxColOffset(neigh_idxs_rows_cols[s], 1)

\* ------------------------------------------------------------------------
\* C15: estimateResolution is the line from min_res to max_res
\* ------------------------------------------------------------------------

\* result is min_res + percent * (max_res - min_res) at the resolution of
\* the fixed-point numbers (a NaN percentage gives NaN)
OnTheLine(result, percent, min_res, max_res) ==
    IF IsNaN(percent) THEN IsNaN(result)
    ELSE LET exact == min_res * GScale + percent * (max_res - min_res)
         IN  result * GScale <= exact /\ exact < (result + 1) * GScale

\* C15: estimateResolution returns min_res + percent * (max_res - min_res)
\* whatever its arguments are, the same for every sorted gradient list,
\* min_res for percent 0 and max_res for percent 1
C15_ResolutionIsLinear ==
    last.kind = "estimated" =>
        /\ OnTheLine(last.result, last.percent, last.min_res, last.max_res)
        /\ \A other \in EstimateLists :
              estimateResolution(last.percent, other, last.min_res, last.max_res) = last.result
        /\ last.percent = 0 => last.result = last.min_res
        /\ last.percent = GScale => last.result = last.max_res

\* the call has returned for a percentage strictly inside (0, 1), a list
\* whose entry at that rank is another number, and distinct bounds
C15_Witness ==
    /\ last.kind = "estimated"
    /\ last.percent = 500
    /\ last.fnc_sorted = << 1000, 803, 196 >>
    /\ last.min_res = RESOLUTION_SURFS_MIN
    /\ last.max_res = RESOLUTION_SURFS_MAX
    /\ last.result = 550

\* ------------------------------------------------------------------------
\* C16: publication is best effort
\* ------------------------------------------------------------------------

\* the clouds and resolutions of the two pipelines are what the call returned
ReturnsItsSelection(rec) ==
    /\ rec.ret_corners = rec.corner.selected_features
    /\ rec.ret_surfs = rec.surf.selected_features
    /\ rec.ret_resolution_corners = resolution_corners
    /\ rec.ret_resolution_surfs = resolution_surfs

\* C16: a publisher without subscribers is sent nothing; an exception of
\* publish() is caught inside publishCloud, so the call still returns its
\* selected clouds and resolutions, and a call that ends in a fault owes it
\* to one of its pipelines
C16_PublicationIsBestEffort ==
    /\ last.kind = "returned" =>
          /\ last.env.subs_corners = 0 => ~last.pub_corners.sent
          /\ last.env.subs_surfs = 0 => ~last.pub_surfs.sent
          /\ last.pub_corners.sent /\ last.env.throws => last.pub_corners.caught
          /\ last.pub_surfs.sent /\ last.env.throws => last.pub_surfs.caught
          /\ ReturnsItsSelection(last)
          /\ pc = "ready"
    /\ last.kind = "faulted" => last.corner.fault # "none" \/ last.surf.fault # "none"

\* a call returned selected corners although publish() threw on the corner
\* publisher, and sent nothing to the surface publisher, which had no
\* subscriber
C16_Witness ==
    /\ last.kind = "returned"
    /\ last.env.throws
    /\ last.env.subs_corners > 0
    /\ last.pub_corners.sent
    /\ last.pub_corners.caught
    /\ last.env.subs_surfs = 0
    /\ ~last.pub_surfs.sent
    /\ Len(last.ret_corners) > 0

\* ------------------------------------------------------------------------
\* C17: the two resolution scalars are shared without a lock
\* ------------------------------------------------------------------------

\* v is the corner resolution of inv's own cutoff
OwnCorners(inv, v) ==
    OnTheLine(v, inv.corner.grad_cutoff_thrd, RESOLUTION_CORNERS_MIN, RESOLUTION_CORNERS_MAX)

\* v is the surface resolution of inv's own cutoff
OwnSurfs(inv, v) ==
    OnTheLine(v, inv.surf.grad_cutoff_thrd, RESOLUTION_SURFS_MIN, RESOLUTION_SURFS_MAX)

\* inv has executed line 99
WroteCorners(inv) ==
    inv.at \in {"write_surfs", "diag_corners", "diag_surfs", "publish",
                "return_corners", "return_surfs", "returned"}

\* inv has executed line 100
WroteSurfs(inv) ==
    inv.at \in {"diag_corners", "diag_surfs", "publish",
                "return_corners", "return_surfs", "returned"}

\* the four resolutions an invocation read back are those of its own cutoffs
ReadsItsOwn(inv) ==
    /\ OwnCorners(inv, inv.diag_corners)
    /\ OwnCorners(inv, inv.ret_resolution_corners)
    /\ OwnSurfs(inv, inv.diag_surfs)
    /\ OwnSurfs(inv, inv.ret_resolution_surfs)

\* each of the four is that of its own cutoff or one the other invocation wrote
ReadsOwnOrOthers(inv, other) ==
    /\ \A v \in {inv.diag_corners, inv.ret_resolution_corners} :
          OwnCorners(inv, v) \/ (WroteCorners(other) /\ OwnCorners(other, v))
    /\ \A v \in {inv.diag_surfs, inv.ret_resolution_surfs} :
          OwnSurfs(inv, v) \/ (WroteSurfs(other) /\ OwnSurfs(other, v))

\* C17: with two invocations on one object and no lock, an invocation
\* returns and reports, for each category, min + own_cutoff * (max - min)
\* or the resolution the other invocation wrote, and it returns and reports
\* those of its own cutoffs when no other invocation was in flight with it
C17_UnsynchronizedResolutions ==
    \A t \in Threads :
        invocations[t].at = "returned" =>
            /\ ReadsOwnOrOthers(invocations[t], invocations[Other(t)])
            /\ ~invocations[t].overlapped => ReadsItsOwn(invocations[t])

\* an invocation returned, and reported in its diagnostics, a corner
\* resolution that the other invocation wrote and that is not the one of
\* its own cutoff, while the other, run to its end as well, got its own
C17_Witness ==
    \E t \in Threads :
        /\ invocations[t].at = "returned"
        /\ invocations[Other(t)].at = "returned"
        /\ invocations[t].overlapped
        /\ ~OwnCorners(invocations[t], invocations[t].ret_resolution_corners)
        /\ ~OwnCorners(invocations[t], invocations[t].diag_corners)
        /\ OwnCorners(invocations[Other(t)], invocations[t].ret_resolution_corners)
        /\ ReadsItsOwn(invocations[Other(t)])

\* two invocations ran one after the other with different cutoffs, and
\* each returned the resolutions of its own cutoffs
SerializedInvocationsOccur ==
    \E t \in Threads :
        /\ invocations[t].at = "returned"
        /\ invocations[Other(t)].at = "returned"
        /\ ~invocations[t].overlapped
        /\ ReadsItsOwn(invocations[t])
        /\ ReadsItsOwn(invocations[Other(t)])
        /\ invocations[t].ret_resolution_corners # invocations[Other(t)].ret_resolution_corners

\* ------------------------------------------------------------------------
\* C18: the two pipelines of a call and each other's inputs
\* ------------------------------------------------------------------------

\* the outcomes of an enabled call on scan s from the resolutions rc, rs
\* with the keep-percentiles kc, ks, as selectFeatures runs it
CallOutcomes(s, rc, rs, kc, ks) ==
    UNION {IF corner.fault # "none"
           THEN {[kind |-> "faulted", corner |-> corner, surf |-> NotRun]}
           ELSE {[kind |-> IF surf.fault # "none" THEN "faulted" ELSE "returned",
                  corner |-> corner, surf |-> surf]
                 : surf \in selectFeaturesFromCloudByGradient(
                               Scans[s], FeaturesCount(Scans[s].surfs), Scans[s].surfs, rs, ks)}
           : corner \in selectFeaturesFromCloudByGradient(
                           Scans[s], FeaturesCount(Scans[s].corners), Scans[s].corners, rc, kc)}

\* what a call hands out for one category: nothing when it ends in a fault
Outputs(kind, rec, min_res, max_res) ==
    IF kind = "returned"
    THEN [delivered |-> TRUE, selected |-> rec.selected_features,
          gradients |-> rec.gradient_norms_all, mean |-> rec.grad_norm_mean,
          std |-> rec.grad_norm_std, cutoff |-> rec.grad_cutoff_thrd,
          resolution |-> estimateResolution(rec.grad_cutoff_thrd, rec.gradient_norms_all,
                                            min_res, max_res)]
    ELSE [delivered |-> FALSE, selected |-> << >>, gradients |-> << >>, mean |-> 0,
          std |-> 0, cutoff |-> 0, resolution |-> 0]

CornerOutputs(s, rc, rs, kc, ks) ==
    {Outputs(o.kind, o.corner, RESOLUTION_CORNERS_MIN, RESOLUTION_CORNERS_MAX)
     : o \in CallOutcomes(s, rc, rs, kc, ks)}

SurfOutputs(s, rc, rs, kc, ks) ==
    {Outputs(o.kind, o.surf, RESOLUTION_SURFS_MIN, RESOLUTION_SURFS_MAX)
     : o \in CallOutcomes(s, rc, rs, kc, ks)}

\* the inputs of the other category that the call could have had instead
OtherPercentiles == {0, 500, 1000}

OtherResolutions(min_res, max_res) == {min_res, (min_res + max_res) \div 2, max_res}

\* C18: the corner outputs of an enabled call (cloud, gradients, mean,
\* deviation, cutoff, new resolution) are the same for every surface
\* batch, surface keep-percentile and prior surface resolution the call
\* could have had instead, and the surface outputs the same for every
\* corner batch, corner keep-percentile and prior corner resolution
C18_PipelinesIndependent ==
    last.kind \in {"returned", "faulted"} =>
        /\ \A s \in 1..Len(Scans) :
              Scans[s].corners = Scans[last.scan].corners =>
                 \A ks \in OtherPercentiles,
                    rs \in OtherResolutions(RESOLUTION_SURFS_MIN, RESOLUTION_SURFS_MAX) :
                    CornerOutputs(s, last.prev_resolution_corners, rs,
                                  corners_keep_percentile, ks)
                      = CornerOutputs(last.scan, last.prev_resolution_corners,
                                      last.prev_resolution_surfs,
                                      corners_keep_percentile, surfs_keep_percentile)
        /\ \A s \in 1..Len(Scans) :
              Scans[s].surfs = Scans[last.scan].surfs =>
                 \A kc \in OtherPercentiles,
                    rc \in OtherResolutions(RESOLUTION_CORNERS_MIN, RESOLUTION_CORNERS_MAX) :
                    SurfOutputs(s, rc, last.prev_resolution_surfs,
                                kc, surfs_keep_percentile)
                      = SurfOutputs(last.scan, last.prev_resolution_corners,
                                    last.prev_resolution_surfs,
                                    corners_keep_percentile, surfs_keep_percentile)

\* ------------------------------------------------------------------------
\* C19: the divisors of the mean and of the standard deviation
\* ------------------------------------------------------------------------

RECURSIVE SumOfNorms(_)
SumOfNorms(gradients) ==
    IF gradients = << >> THEN 0 ELSE Head(gradients)[2] + SumOfNorms(Tail(gradients))

RECURSIVE SumOfSquaredDeviations(_, _)
SumOfSquaredDeviations(gradients, mean) ==
    IF gradients = << >> THEN 0
    ELSE (Head(gradients)[2] - mean) * (Head(gradients)[2] - mean)
            + SumOfSquaredDeviations(Tail(gradients), mean)

\* q is the quotient total / divisor, rounded down
IsQuotient(q, total, divisor) == q * divisor <= total /\ total < (q + 1) * divisor

\* root is the square root of total / divisor, rounded down
IsRootOfQuotient(root, total, divisor) ==
    root >= 0 /\ root * root * divisor <= total /\ total < (root + 1) * (root + 1) * divisor

\* C19: in estimateGradients the mean is the sum of the normalised
\* gradients of the grouped features divided by their number, and the
\* standard deviation is the square root of the sum of their squared
\* deviations divided by the feature count of the whole batch, grouped and
\* standalone; the two divisors differ exactly when a feature is standalone
C19_StdDividesByFeatureCount ==
    \A rec \in Estimated :
        /\ rec.features_count = Len(rec.gradients) + Len(rec.standalone_points_indices)
        /\ rec.features_count # Len(rec.gradients) <=> rec.standalone_points_indices # << >>
        /\ Len(rec.gradients) >= 1 /\ ~HasNaN(rec) =>
              /\ IsQuotient(rec.grad_norm_mean, SumOfNorms(rec.gradients), Len(rec.gradients))
              /\ IsRootOfQuotient(rec.grad_norm_std,
                                  SumOfSquaredDeviations(rec.gradients, rec.grad_norm_mean),
                                  rec.features_count)
        /\ Len(rec.gradients) >= 1 /\ HasNaN(rec) =>
              IsNaN(rec.grad_norm_mean) /\ IsNaN(rec.grad_norm_std)

\* a batch with grouped features and a standalone one, whose standard
\* deviation is not the one the grouped count would give
C19_Witness ==
    \E rec \in Estimated :
        /\ Len(rec.gradients) >= 2
        /\ rec.standalone_points_indices # << >>
        /\ ~HasNaN(rec)
        /\ rec.grad_norm_std > 0
        /\ ~IsRootOfQuotient(rec.grad_norm_std,
                             SumOfSquaredDeviations(rec.gradients, rec.grad_norm_mean),
                             Len(rec.gradients))

\* ------------------------------------------------------------------------
\* C20: the search radius and the radius of the angular table
\* ------------------------------------------------------------------------

\* the call started from resolutions inside the bounds of their categories
StartedWithinBounds ==
    /\ Within(last.prev_resolution_corners, RESOLUTION_CORNERS_MIN, RESOLUTION_CORNERS_MAX)
    /\ Within(last.prev_resolution_surfs, RESOLUTION_SURFS_MIN, RESOLUTION_SURFS_MAX)

\* C20: the search radius handed to each pipeline of an enabled call, the
\* resolution the previous call left (at first the midpoint of the bounds),
\* is greater than 0 and at most R, the radius the angular table was built
\* for; stated for the calls that start from resolutions inside their
\* bounds
C20_RadiusWithinTableRadius ==
    StartedWithinBounds =>
        /\ last.corner.ran =>
              /\ last.corner.search_radius = last.prev_resolution_corners
              /\ FGt(last.corner.search_radius, 0)
              /\ FGe(R, last.corner.search_radius)
        /\ last.surf.ran =>
              /\ last.surf.search_radius = last.prev_resolution_surfs
              /\ FGt(last.surf.search_radius, 0)
              /\ FGe(R, last.surf.search_radius)

\* ------------------------------------------------------------------------
\* C21: the gradient list a call returns
\* ------------------------------------------------------------------------

\* the features of a run that the neighbour search gave a neighbour
GroupedFeatures(rec) == {n \in DOMAIN rec.neighbors_map : rec.neighbors_map[n] # {}}

\* C21: the gradient list returned for a non-empty batch has one entry per
\* feature of the batch (standalone + grouped): the value 1.0 for each
\* standalone feature, then the normalised gradients of the grouped
\* features in the order of the ranking, and from each entry to the next
\* the list does not increase
C21_GradientListIsNonIncreasing ==
    \A rec \in Returned :
        /\ Len(rec.gradient_norms_all) = rec.features_count
        /\ rec.features_count = Len(rec.standalone_points_indices) + Len(rec.gradients)
        /\ {rec.gradients[k][1] : k \in 1..Len(rec.gradients)} = GroupedFeatures(rec)
        /\ \A k \in 1..Len(rec.standalone_points_indices) :
              rec.gradient_norms_all[k] = GScale
        /\ \A k \in 1..Len(rec.gradients) :
              rec.gradient_norms_all[Len(rec.standalone_points_indices) + k]
                 = rec.gradients[k][2]
        /\ \A k \in 1..(Len(rec.gradient_norms_all) - 1) :
              FGe(rec.gradient_norms_all[k], rec.gradient_norms_all[k + 1])
====
